---- MODULE Spec2Model ----
(***************************************************************************)
(* A model of BedrockClient.llm_request                                    *)
(* (src/src/llmperf/ray_clients/bedrock_chat_completions_client.py).       *)
(*                                                                         *)
(* Under Spec one invocation runs at a time.  The caller owns one         *)
(* RequestConfig object and may hand the same object to llm_request       *)
(* again after an invocation has returned or raised; under                *)
(* ConcurrentSpec it may also do so while an invocation waits on its      *)
(* stream.  The remote service is the                                      *)
(* environment: it decides what converse / converse_stream return, which   *)
(* events a stream delivers, when it ends and when it raises.              *)
(*                                                                         *)
(* Time: `clock' is time.monotonic().  It advances only while the          *)
(* invocation is blocked on the remote service: in converse, and in the    *)
(* wait for each event of a stream (the wait for the first event covers    *)
(* the time converse_stream took).  The statements that handle one event   *)
(* all read the same clock value.                                          *)
(*                                                                         *)
(* Python values: a dict is a function whose domain is its set of keys,    *)
(* a list is a sequence, a str of generated text is a sequence of          *)
(* characters, None is the value None below, and a float quotient a / b    *)
(* is kept as the pair <<a, b>>.                                           *)
(***************************************************************************)
EXTENDS Integers, Sequences, FiniteSets, TLC

VARIABLES
    environ,            \* os.environ: the set of variables with a non-empty value
    request_config,     \* the caller's RequestConfig object (mutable)
    clock,              \* time.monotonic()
    pc,                 \* position of the invocation
    exc,                \* the exception in flight or raised to the caller
    stream_model, api_inputs, response,
    role, generated_text, message_stop, usage, metrics,
    benchmark_metrics,
    time_to_next_token, tokens_received, ttft,
    error_response_code, error_msg,
    output_throughput, total_request_time,
    start_time, most_recent_received_token_time,
    invocations,        \* number of invocations started so far
    entry_config,       \* contents of request_config when the invocation began
    issued,             \* every remote call issued, in order
    consumed,           \* events of the current stream consumed so far
    caught,             \* the exception the handler of line 181 caught
    result,             \* <<>> or the triple the invocation returned
    suspended           \* <<>> or the frame of an invocation that waits
                        \* on its stream while another one runs

shared == <<environ, request_config, clock>>
locals == <<stream_model, api_inputs, response, role, generated_text, message_stop,
            usage, metrics, benchmark_metrics, time_to_next_token,
            tokens_received, ttft, error_response_code, error_msg,
            output_throughput, total_request_time, start_time,
            most_recent_received_token_time>>
ghost == <<invocations, entry_config, issued, consumed, caught, result>>
vars == <<shared, pc, exc, locals, ghost, suspended>>

----------------------------------------------------------------------------
(* Bounds *)

MaxInvocations == 2     \* invocations on the same RequestConfig object
MaxEvents == 3          \* events one stream delivers
MaxTick == 2            \* clock advance while blocked on the service
Epoch == 5              \* reading of the monotonic clock at the start

----------------------------------------------------------------------------
(* Python values *)

None == [None |-> TRUE]
NoExc == "None"

EmptyDict == [k \in {} |-> 0]
Put(d, k, v) == [x \in DOMAIN d \cup {k} |-> IF x = k THEN v ELSE d[x]]
Del(d, k) == [x \in DOMAIN d \ {k} |-> d[x]]

RECURSIVE Sum(_)
Sum(s) == IF s = <<>> THEN 0 ELSE Head(s) + Sum(Tail(s))

Ratio(a, b) == <<a, b>>
Zero == Ratio(0, 1)

(* keys of the metrics record (llmperf.common_metrics) *)
ERROR_CODE == "error_code"
ERROR_MSG == "error_msg"
INTER_TOKEN_LAT == "inter_token_latency_s"
TTFT == "ttft_s"
E2E_LAT == "end_to_end_latency_s"
REQ_OUTPUT_THROUGHPUT == "request_output_throughput_token_per_s"
NUM_TOTAL_TOKENS == "number_total_tokens"
NUM_OUTPUT_TOKENS == "number_output_tokens"
NUM_INPUT_TOKENS == "number_input_tokens"

RequiredEnv == {"AWS_ACCESS_KEY_ID", "AWS_SECRET_ACCESS_KEY", "AWS_REGION_NAME"}

----------------------------------------------------------------------------
(* Inputs: request descriptions *)

Prompt == <<"Hello", 1>>
ModelId == "anthropic.claude-3"

SamplingValue(k) ==
    CASE k = "max_tokens" -> 100
      [] k = "maxTokens" -> 50
      [] k = "temperature" -> 1

WithStream(sp, s) == [k \in DOMAIN sp \cup {"stream"} |-> IF k = "stream" THEN s ELSE sp[k]]

(* sampling parameters that do not ask for a stream *)
PlainParams ==
    { [k \in K |-> SamplingValue(k)] :
        K \in SUBSET {"max_tokens", "maxTokens", "temperature"} }
BlockingParams == PlainParams \cup { WithStream(sp, FALSE) : sp \in PlainParams }

(* sampling parameters that ask for a stream *)
StreamingParams == { WithStream([max_tokens |-> 100], TRUE) }

OptionalFields == {"system", "additionalModelRequestFields",
                   "additionalModelResponseFieldPaths", "toolConfig"}

(* the empty and a non-empty value of each field of additional_request_body *)
EmptyValue(f) ==
    CASE f = "system" -> ""
      [] f = "additionalModelRequestFields" -> EmptyDict
      [] f = "additionalModelResponseFieldPaths" -> <<>>
      [] f = "toolConfig" -> EmptyDict
      [] OTHER -> ""
FullValue(f) ==
    CASE f = "system" -> "Be brief."
      [] f = "additionalModelRequestFields" -> [top_k |-> 5]
      [] f = "additionalModelResponseFieldPaths" -> <<"/stop_sequence">>
      [] f = "toolConfig" -> [tools |-> <<"get_weather">>]
      [] OTHER -> "x"

Body(present, given) ==
    [f \in present |-> IF f \in given THEN FullValue(f) ELSE EmptyValue(f)]

Bodies ==
    { None,
      Body({}, {}),
      Body(OptionalFields, {}),
      Body(OptionalFields, OptionalFields \ {"toolConfig"}),
      Body(OptionalFields, OptionalFields),
      Body({"toolConfig"}, {"toolConfig"}),
      Body({"system", "guardrailConfig"}, {"system", "guardrailConfig"}) }

StreamedBodies == { None, Body({"toolConfig"}, {"toolConfig"}) }

MakeRequest(sp, body) ==
    [prompt |-> Prompt, model |-> ModelId,
     sampling_params |-> sp, additional_request_body |-> body]

Requests ==
    { MakeRequest(sp, b) : sp \in BlockingParams, b \in Bodies }
    \cup { MakeRequest(sp, b) : sp \in StreamingParams, b \in StreamedBodies }

----------------------------------------------------------------------------
(* Request Builder, lines 44-107 *)

(* truth value of a dict, list or str: non-empty *)
TruthyDict(d) == DOMAIN d # {}

(* a rename that leaves the old key behind *)
RenameMaxTokensKeepsOld(inference_config) ==
    IF TruthyDict(inference_config) /\ "max_tokens" \in DOMAIN inference_config
    THEN Put(inference_config, "maxTokens", inference_config["max_tokens"])
    ELSE inference_config

RenameMaxTokens(inference_config) ==
    IF TruthyDict(inference_config) /\ "max_tokens" \in DOMAIN inference_config
    THEN Del(Put(inference_config, "maxTokens", inference_config["max_tokens"]),
             "max_tokens")
    ELSE inference_config

ExtractStream(inference_config) ==
    IF TruthyDict(inference_config) /\ "stream" \in DOMAIN inference_config
    THEN [stream_model |-> inference_config["stream"],
          inference_config |-> Del(inference_config, "stream")]
    ELSE [stream_model |-> FALSE, inference_config |-> inference_config]

Messages(prompt) ==
    << [role |-> "user", content |-> << [text |-> prompt] >>] >>

(* `x = "" if key not in body else body[key]' followed by `if x:' *)
FieldGiven(body, f) == f \in DOMAIN body /\ body[f] # EmptyValue(f)

BaseInputs(model_id, messages, inference_config) ==
    LET base == [modelId |-> model_id, messages |-> messages]
    IN  IF TruthyDict(inference_config)
        THEN Put(base, "inferenceConfig", inference_config)
        ELSE base

WithSystem(inputs, body) ==
    IF FieldGiven(body, "system")
    THEN Put(inputs, "system", << [text |-> body["system"]] >>)
    ELSE inputs

WithField(inputs, body, f) ==
    IF FieldGiven(body, f) THEN Put(inputs, f, body[f]) ELSE inputs

(* line 107 reads the name tool_config, which is bound nowhere *)
ToolConfigRaises(body) == FieldGiven(body, "toolConfig")

(* the call arguments as far as lines 80-105 build them *)
BuildApiInputs(model_id, prompt_text, inference_config, body) ==
    LET base == BaseInputs(model_id, Messages(prompt_text), inference_config)
    IN  IF body = None
        THEN base
        ELSE WithField(
               WithField(WithSystem(base, body), body,
                         "additionalModelRequestFields"),
               body, "additionalModelResponseFieldPaths")

BuilderRaises(body) == body # None /\ ToolConfigRaises(body)

----------------------------------------------------------------------------
(* State before the first invocation *)

InitLocals ==
    /\ stream_model = FALSE
    /\ api_inputs = EmptyDict
    /\ response = None
    /\ role = ""
    /\ generated_text = <<>>
    /\ message_stop = ""
    /\ usage = EmptyDict
    /\ metrics = EmptyDict
    /\ benchmark_metrics = EmptyDict
    /\ time_to_next_token = <<>>
    /\ tokens_received = 0
    /\ ttft = 0
    /\ error_response_code = "None"
    /\ error_msg = ""
    /\ output_throughput = Zero
    /\ total_request_time = 0
    /\ start_time = 0
    /\ most_recent_received_token_time = 0

InitWith(requests) ==
    /\ environ \in SUBSET RequiredEnv
    /\ request_config \in requests
    /\ clock = Epoch
    /\ pc = "idle"
    /\ exc = NoExc
    /\ InitLocals
    /\ invocations = 0
    /\ entry_config = request_config
    /\ issued = <<>>
    /\ consumed = <<>>
    /\ caught = NoExc
    /\ result = <<>>
    /\ suspended = <<>>

Init == InitWith(Requests)

----------------------------------------------------------------------------
(* llm_request, lines 36-129: configuration check, Request Builder and *)
(* initialisation of the timing trace *)

(* a check that forgets the region *)
MissingEnvIgnoresRegion ==
    {"AWS_ACCESS_KEY_ID", "AWS_SECRET_ACCESS_KEY"} \ environ # {}

MissingEnv == RequiredEnv \ environ # {}

(* lines 36-129, run for a new invocation on the caller's request_config *)
Entry ==
    /\ invocations < MaxInvocations
    /\ invocations' = invocations + 1
    /\ entry_config' = request_config
    /\ consumed' = <<>>
    /\ caught' = NoExc
    /\ result' = <<>>
    /\ UNCHANGED <<environ, clock, issued>>
    /\ response' = None
    /\ role' = ""
    /\ generated_text' = <<>>
    /\ message_stop' = ""
    /\ usage' = EmptyDict
    /\ metrics' = EmptyDict
    /\ time_to_next_token' = <<>>
    /\ tokens_received' = 0
    /\ ttft' = 0
    /\ error_response_code' = "None"
    /\ error_msg' = ""
    /\ output_throughput' = Zero
    /\ total_request_time' = 0
    /\ IF MissingEnv
       THEN /\ pc' = "raised"
            /\ exc' = "ValueError"
            /\ request_config' = request_config
            /\ stream_model' = FALSE
            /\ api_inputs' = EmptyDict
            /\ benchmark_metrics' = EmptyDict
            /\ start_time' = 0
            /\ most_recent_received_token_time' = 0
       ELSE LET renamed == RenameMaxTokens(request_config.sampling_params)
                ex == ExtractStream(renamed)
                body == request_config.additional_request_body
            IN  /\ request_config' =
                       [request_config EXCEPT !.sampling_params = ex.inference_config]
                /\ stream_model' = ex.stream_model
                /\ api_inputs' = BuildApiInputs(request_config.model,
                                                request_config.prompt[1],
                                                ex.inference_config, body)
                /\ IF BuilderRaises(body)
                   THEN /\ pc' = "raised"
                        /\ exc' = "NameError"
                        /\ benchmark_metrics' = EmptyDict
                        /\ start_time' = 0
                        /\ most_recent_received_token_time' = 0
                   ELSE /\ pc' = "try"
                        /\ exc' = NoExc
                        /\ benchmark_metrics' =
                               Put(Put(EmptyDict, ERROR_CODE, "None"), ERROR_MSG, "")
                        /\ start_time' = clock
                        /\ most_recent_received_token_time' = clock

(* the caller invokes llm_request when no invocation is running *)
LlmRequest ==
    /\ pc \in {"idle", "returned", "raised"}
    /\ Entry
    /\ UNCHANGED suspended

----------------------------------------------------------------------------
(* What the remote service can send *)

UsageFull == [inputTokens |-> 2, outputTokens |-> 3, totalTokens |-> 5]
UsageNoTotal == [inputTokens |-> 1, outputTokens |-> 4]
UsageNoOutput == [inputTokens |-> 2, totalTokens |-> 2]
Metrics1 == [latencyMs |-> 10]
Metrics2 == [latencyMs |-> 20]

EvMessageStart == [messageStart |-> [role |-> "assistant"]]
EvDelta(text) == [contentBlockDelta |-> [delta |-> [text |-> text]]]
EvToolDelta == [contentBlockDelta |-> [delta |-> [toolUse |-> [input |-> "{"]]]]
EvMessageStop == [messageStop |-> [stopReason |-> "end_turn"]]
EvMetadataFull == [metadata |-> [usage |-> UsageFull, metrics |-> Metrics1]]
EvMetadataUsage == [metadata |-> [usage |-> UsageNoTotal]]
EvMetadataMetrics == [metadata |-> [metrics |-> Metrics2]]

DeltaTexts == { <<"a">>, <<"b">> }

Events ==
    { EvMessageStart, EvToolDelta, EvMessageStop,
      EvMetadataFull, EvMetadataUsage, EvMetadataMetrics }
    \cup { EvDelta(t) : t \in DeltaTexts }

Message(content) == [role |-> "assistant", content |-> content]
Response(content, u) ==
    [output |-> [message |-> Message(content)],
     stopReason |-> "end_turn", usage |-> u, metrics |-> Metrics1]
TextContent == << [text |-> <<"a", "b">>] >>
ToolContent == << [toolUse |-> [name |-> "get_weather"]] >>
RespNoUsage ==
    [output |-> [message |-> Message(TextContent)], stopReason |-> "end_turn"]

(* what converse_stream returns: a dict that holds the event stream, or *)
(* one without the 'stream' key, for which response.get gives None     *)
StreamResponses == { [stream |-> "EventStream"], [ResponseMetadata |-> "200"] }

Responses ==
    { Response(TextContent, u) : u \in {UsageFull, UsageNoTotal, UsageNoOutput} }
    \cup { Response(ToolContent, UsageFull), Response(<<>>, UsageFull), RespNoUsage }

----------------------------------------------------------------------------
(* The body of the event loop, lines 136-161.  b is the loop's view of   *)
(* the locals; b.raised names the exception a statement raised, after    *)
(* which no later statement runs.                                        *)

Cur ==
    [role |-> role, ttft |-> ttft, time_to_next_token |-> time_to_next_token,
     most_recent_received_token_time |-> most_recent_received_token_time,
     generated_text |-> generated_text, message_stop |-> message_stop,
     usage |-> usage, metrics |-> metrics, raised |-> NoExc]

OnMessageStart(b, event) ==
    IF b.raised # NoExc \/ "messageStart" \notin DOMAIN event THEN b
    ELSE IF "role" \in DOMAIN event["messageStart"]
         THEN [b EXCEPT !.role = event["messageStart"]["role"]]
         ELSE [b EXCEPT !.raised = "KeyError"]

(* every gap measured from call start *)
RecordArrivalFromStart(b, now, start) ==
    LET timed ==
          IF b.ttft = 0
          THEN [b EXCEPT !.ttft = now - start,
                         !.time_to_next_token = Append(@, now - start)]
          ELSE [b EXCEPT !.time_to_next_token = Append(@, now - start)]
    IN  [timed EXCEPT !.most_recent_received_token_time = now]

(* lines 141-148 *)
RecordArrival(b, now, start) ==
    LET timed ==
          IF b.ttft = 0
          THEN [b EXCEPT !.ttft = now - start,
                         !.time_to_next_token = Append(@, now - start)]
          ELSE [b EXCEPT !.time_to_next_token =
                           Append(@, now - b.most_recent_received_token_time)]
    IN  [timed EXCEPT !.most_recent_received_token_time = now]

(* the delta's text put in front of the accumulated text *)
AppendTextInFront(b, event) ==
    LET cbd == event["contentBlockDelta"]
    IN  IF "delta" \in DOMAIN cbd /\ "text" \in DOMAIN cbd["delta"]
        THEN [b EXCEPT !.generated_text = cbd["delta"]["text"] \o @]
        ELSE [b EXCEPT !.raised = "KeyError"]

(* line 150 *)
AppendText(b, event) ==
    LET cbd == event["contentBlockDelta"]
    IN  IF "delta" \in DOMAIN cbd /\ "text" \in DOMAIN cbd["delta"]
        THEN [b EXCEPT !.generated_text = @ \o cbd["delta"]["text"]]
        ELSE [b EXCEPT !.raised = "KeyError"]

OnContentBlockDelta(b, event, now, start) ==
    IF b.raised # NoExc \/ "contentBlockDelta" \notin DOMAIN event THEN b
    ELSE AppendText(RecordArrival(b, now, start), event)

OnMessageStop(b, event) ==
    IF b.raised # NoExc \/ "messageStop" \notin DOMAIN event THEN b
    ELSE IF "stopReason" \in DOMAIN event["messageStop"]
         THEN [b EXCEPT !.message_stop = event["messageStop"]["stopReason"]]
         ELSE [b EXCEPT !.raised = "KeyError"]

(* a metadata event without usage resets the captured usage *)
OnMetadataResetsUsage(b, event) ==
    IF b.raised # NoExc \/ "metadata" \notin DOMAIN event THEN b
    ELSE LET metadata == event["metadata"]
             withUsage == IF "usage" \in DOMAIN metadata
                          THEN [b EXCEPT !.usage = metadata["usage"]]
                          ELSE [b EXCEPT !.usage = EmptyDict]
         IN  IF "metrics" \in DOMAIN metadata
             THEN [withUsage EXCEPT !.metrics = metadata["metrics"]]
             ELSE withUsage

OnMetadata(b, event) ==
    IF b.raised # NoExc \/ "metadata" \notin DOMAIN event THEN b
    ELSE LET metadata == event["metadata"]
             withUsage == IF "usage" \in DOMAIN metadata
                          THEN [b EXCEPT !.usage = metadata["usage"]]
                          ELSE b
         IN  IF "metrics" \in DOMAIN metadata
             THEN [withUsage EXCEPT !.metrics = metadata["metrics"]]
             ELSE withUsage

LoopBody(b, event, now, start) ==
    OnMetadata(
      OnMessageStop(
        OnContentBlockDelta(OnMessageStart(b, event), event, now, start),
        event),
      event)

(* lines 166-175 on the response of converse *)
ConverseBody(b, resp) ==
    LET b0 == [b EXCEPT !.time_to_next_token = <<>>, !.ttft = 0]
        hasMessage == "output" \in DOMAIN resp
                        /\ "message" \in DOMAIN resp["output"]
        message == resp["output"]["message"]
    IN  IF ~hasMessage \/ "role" \notin DOMAIN message
        THEN [b0 EXCEPT !.raised = "KeyError"]
        ELSE LET b1 == [b0 EXCEPT !.role = message["role"]]
             IN  IF "content" \notin DOMAIN message
                 THEN [b1 EXCEPT !.raised = "KeyError"]
                 ELSE IF Len(message["content"]) = 0
                 THEN [b1 EXCEPT !.raised = "IndexError"]
                 ELSE IF "text" \notin DOMAIN message["content"][1]
                 THEN [b1 EXCEPT !.raised = "KeyError"]
                 ELSE LET b2 == [b1 EXCEPT !.generated_text =
                                              message["content"][1]["text"]]
                      IN  IF "stopReason" \notin DOMAIN resp
                          THEN [b2 EXCEPT !.raised = "KeyError"]
                          ELSE LET b3 == [b2 EXCEPT !.message_stop =
                                                       resp["stopReason"]]
                               IN  IF "usage" \notin DOMAIN resp
                                   THEN [b3 EXCEPT !.raised = "KeyError"]
                                   ELSE LET b4 == [b3 EXCEPT !.usage =
                                                                resp["usage"]]
                                        IN  IF "metrics" \notin DOMAIN resp
                                            THEN [b4 EXCEPT !.raised = "KeyError"]
                                            ELSE [b4 EXCEPT !.metrics =
                                                              resp["metrics"]]

(* write the loop's view back to the locals *)
Store(b) ==
    /\ role' = b.role
    /\ ttft' = b.ttft
    /\ time_to_next_token' = b.time_to_next_token
    /\ most_recent_received_token_time' = b.most_recent_received_token_time
    /\ generated_text' = b.generated_text
    /\ message_stop' = b.message_stop
    /\ usage' = b.usage
    /\ metrics' = b.metrics

traceLocals == <<role, ttft, time_to_next_token, most_recent_received_token_time,
                 generated_text, message_stop, usage, metrics>>
otherLocals == <<stream_model, api_inputs, benchmark_metrics, tokens_received,
                 error_response_code, error_msg, output_throughput,
                 total_request_time, start_time>>

Call(op) == [invocation |-> invocations, op |-> op, args |-> api_inputs]

----------------------------------------------------------------------------
(* The try block, lines 131-179 *)

(* line 133-134: the streaming call and response.get('stream') *)
CallConverseStream ==
    /\ pc = "try"
    /\ stream_model
    /\ issued' = Append(issued, Call("converse_stream"))
    /\ clock' = clock
    /\ \/ /\ pc' = "except"
          /\ exc' = "ClientError"
          /\ UNCHANGED response
       \/ \E r \in StreamResponses :
             /\ response' = r
             /\ IF "stream" \in DOMAIN r
                THEN pc' = "streaming" /\ exc' = NoExc
                ELSE pc' = "except" /\ exc' = "TypeError"
    /\ UNCHANGED <<environ, request_config, traceLocals, otherLocals>>
    /\ UNCHANGED <<invocations, entry_config, consumed, caught, result, suspended>>

(* one iteration of the loop of line 135 *)
NextEvent ==
    /\ pc = "streaming"
    /\ Len(consumed) < MaxEvents
    /\ \E event \in Events, d \in 0..MaxTick :
          LET now == clock + d
              b == LoopBody(Cur, event, now, start_time)
          IN  /\ clock' = now
              /\ consumed' = Append(consumed, [event |-> event, at |-> now])
              /\ Store(b)
              /\ exc' = b.raised
              /\ pc' = IF b.raised = NoExc THEN "streaming" ELSE "except"
    /\ UNCHANGED <<environ, request_config, response, otherLocals>>
    /\ UNCHANGED <<invocations, entry_config, issued, caught, result, suspended>>

(* a loop that ends only once a MessageStop event was consumed *)
StreamEndAfterStop ==
    /\ pc = "streaming"
    /\ \E i \in DOMAIN consumed : "messageStop" \in DOMAIN consumed[i].event
    /\ pc' = "post"
    /\ UNCHANGED <<shared, exc, locals, ghost, suspended>>

(* the iterator is exhausted: the loop of line 135 ends *)
StreamEnd ==
    /\ pc = "streaming"
    /\ pc' = "post"
    /\ UNCHANGED <<shared, exc, locals, ghost, suspended>>

(* the iterator raises instead of yielding the next event *)
StreamRaises ==
    /\ pc = "streaming"
    /\ pc' = "except"
    /\ exc' = "EventStreamError"
    /\ UNCHANGED <<shared, locals, ghost, suspended>>

(* lines 163-175 *)
CallConverse ==
    /\ pc = "try"
    /\ ~stream_model
    /\ issued' = Append(issued, Call("converse"))
    /\ \E d \in 0..MaxTick : clock' = clock + d
    /\ \/ /\ pc' = "except"
          /\ exc' = "ClientError"
          /\ UNCHANGED <<response, traceLocals>>
       \/ \E r \in Responses :
             LET b == ConverseBody(Cur, r)
             IN  /\ response' = r
                 /\ Store(b)
                 /\ exc' = b.raised
                 /\ pc' = IF b.raised = NoExc THEN "post" ELSE "except"
    /\ UNCHANGED <<environ, request_config, otherLocals>>
    /\ UNCHANGED <<invocations, entry_config, consumed, caught, result, suspended>>

(* seconds per token instead of tokens per second *)
ThroughputInverted(tokens, seconds) == Ratio(seconds, tokens)

(* lines 177-179 *)
Throughput(tokens, seconds) == Ratio(tokens, seconds)

ComputeMetrics ==
    /\ pc = "post"
    /\ IF "outputTokens" \notin DOMAIN usage
       THEN /\ pc' = "except"
            /\ exc' = "KeyError"
            /\ UNCHANGED <<tokens_received, total_request_time, output_throughput>>
       ELSE /\ tokens_received' = usage["outputTokens"]
            /\ total_request_time' = clock - start_time
            /\ IF clock - start_time = 0
               THEN /\ pc' = "except"
                    /\ exc' = "ZeroDivisionError"
                    /\ UNCHANGED output_throughput
               ELSE /\ pc' = "finalize"
                    /\ exc' = NoExc
                    /\ output_throughput' =
                           Throughput(usage["outputTokens"], clock - start_time)
    /\ UNCHANGED <<shared, traceLocals, stream_model, api_inputs, response,
                   benchmark_metrics, error_response_code, error_msg, start_time,
                   ghost, suspended>>

(* lines 181-185 *)
ErrorFields(bm, msg, code) == Put(Put(bm, ERROR_MSG, msg), ERROR_CODE, code)

Except ==
    /\ pc = "except"
    /\ benchmark_metrics' =
           ErrorFields(benchmark_metrics, error_msg, error_response_code)
    /\ caught' = exc
    /\ exc' = NoExc
    /\ pc' = "finalize"
    /\ UNCHANGED <<shared, traceLocals, stream_model, api_inputs, response,
                   tokens_received, error_response_code, error_msg, output_throughput,
                   total_request_time, start_time>>
    /\ UNCHANGED <<invocations, entry_config, issued, consumed, result, suspended>>

(* end-to-end latency measured when the record is filled in *)
TimingFieldsMeasuredAtEnd(bm) ==
    Put(Put(Put(Put(bm, INTER_TOKEN_LAT, Sum(time_to_next_token)),
                TTFT, ttft),
            E2E_LAT, clock - start_time),
        REQ_OUTPUT_THROUGHPUT, output_throughput)

(* lines 187-190 *)
TimingFields(bm) ==
    Put(Put(Put(Put(bm, INTER_TOKEN_LAT, Sum(time_to_next_token)),
                TTFT, ttft),
            E2E_LAT, total_request_time),
        REQ_OUTPUT_THROUGHPUT, output_throughput)

(* lines 191-193: the reads of usage, in order, up to the first missing key *)
TokenFields(bm) ==
    IF "totalTokens" \notin DOMAIN usage THEN [bm |-> bm, raised |-> "KeyError"]
    ELSE LET bm1 == Put(bm, NUM_TOTAL_TOKENS, usage["totalTokens"])
         IN  IF "outputTokens" \notin DOMAIN usage
             THEN [bm |-> bm1, raised |-> "KeyError"]
             ELSE LET bm2 == Put(bm1, NUM_OUTPUT_TOKENS, usage["outputTokens"])
                  IN  IF "inputTokens" \notin DOMAIN usage
                      THEN [bm |-> bm2, raised |-> "KeyError"]
                      ELSE [bm |-> Put(bm2, NUM_INPUT_TOKENS, usage["inputTokens"]),
                            raised |-> NoExc]

(* lines 187-195 *)
Finalize ==
    /\ pc = "finalize"
    /\ LET f == TokenFields(TimingFields(benchmark_metrics))
       IN  /\ benchmark_metrics' = f.bm
           /\ exc' = f.raised
           /\ IF f.raised = NoExc
              THEN /\ pc' = "returned"
                   /\ result' = <<f.bm, generated_text, request_config>>
              ELSE /\ pc' = "raised"
                   /\ result' = <<>>
    /\ UNCHANGED <<shared, traceLocals, stream_model, api_inputs, response,
                   tokens_received, error_response_code, error_msg, output_throughput,
                   total_request_time, start_time>>
    /\ UNCHANGED <<invocations, entry_config, issued, consumed, caught, suspended>>

----------------------------------------------------------------------------
Next ==
    \/ LlmRequest
    \/ CallConverseStream
    \/ NextEvent
    \/ StreamEnd
    \/ StreamRaises
    \/ CallConverse
    \/ ComputeMetrics
    \/ Except
    \/ Finalize

Spec == Init /\ [][Next]_vars

(* Progress.  The invocation is sequential code, so each of its steps is *)
(* taken once it is enabled; a remote call returns or raises; and the   *)
(* event sequence of a stream is finite, so the iterator is eventually  *)
(* exhausted.  Nothing obliges the service to send a further event or   *)
(* to fail, and nothing obliges the caller to invoke again.             *)
Fairness ==
    /\ WF_vars(CallConverseStream)
    /\ WF_vars(CallConverse)
    /\ WF_vars(StreamEnd)
    /\ WF_vars(ComputeMetrics)
    /\ WF_vars(Except)
    /\ WF_vars(Finalize)

(* Whether the invocation ends does not depend on how long a wait for   *)
(* an event lasts, only on whether any time passed at all (line 179):   *)
(* for progress an event arrives at once or after MaxTick.              *)
CoarseNextEvent == NextEvent /\ clock' \in {clock, clock + MaxTick}

FairNext ==
    \/ LlmRequest
    \/ CallConverseStream
    \/ CoarseNextEvent
    \/ StreamEnd
    \/ StreamRaises
    \/ CallConverse
    \/ ComputeMetrics
    \/ Except
    \/ Finalize

FairSpec == Init /\ [][FairNext]_vars /\ Fairness

----------------------------------------------------------------------------
(* Overlapping invocations.  An orchestrator that runs llm_request on   *)
(* several threads of one process can start an invocation while another *)
(* one is blocked on the remote service.  Each invocation has its own   *)
(* frame (lines 110-129); environ, the clock and the RequestConfig      *)
(* object the caller passed are shared (lines 55-65 write to it).       *)

(* the frame of the running invocation *)
Frame ==
    [id |-> invocations,
     pc |-> pc,
     exc |-> exc,
     stream_model |-> stream_model,
     api_inputs |-> api_inputs,
     response |-> response,
     role |-> role,
     generated_text |-> generated_text,
     message_stop |-> message_stop,
     usage |-> usage,
     metrics |-> metrics,
     benchmark_metrics |-> benchmark_metrics,
     time_to_next_token |-> time_to_next_token,
     tokens_received |-> tokens_received,
     ttft |-> ttft,
     error_response_code |-> error_response_code,
     error_msg |-> error_msg,
     output_throughput |-> output_throughput,
     total_request_time |-> total_request_time,
     start_time |-> start_time,
     most_recent_received_token_time |-> most_recent_received_token_time,
     entry_config |-> entry_config,
     consumed |-> consumed,
     caught |-> caught,
     result |-> result]

(* a second invocation is given the caller's request_config while the   *)
(* first one waits for the first event of its stream                    *)
ConcurrentLlmRequest ==
    /\ pc = "streaming"
    /\ consumed = <<>>
    /\ suspended = <<>>
    /\ suspended' = <<Frame>>
    /\ Entry

(* the overlapping invocation has ended: the waiting one goes on *)
Resume ==
    /\ suspended # <<>>
    /\ pc \in {"returned", "raised"}
    /\ LET f == suspended[1]
       IN
          /\ pc' = f.pc
          /\ exc' = f.exc
          /\ stream_model' = f.stream_model
          /\ api_inputs' = f.api_inputs
          /\ response' = f.response
          /\ role' = f.role
          /\ generated_text' = f.generated_text
          /\ message_stop' = f.message_stop
          /\ usage' = f.usage
          /\ metrics' = f.metrics
          /\ benchmark_metrics' = f.benchmark_metrics
          /\ time_to_next_token' = f.time_to_next_token
          /\ tokens_received' = f.tokens_received
          /\ ttft' = f.ttft
          /\ error_response_code' = f.error_response_code
          /\ error_msg' = f.error_msg
          /\ output_throughput' = f.output_throughput
          /\ total_request_time' = f.total_request_time
          /\ start_time' = f.start_time
          /\ most_recent_received_token_time' = f.most_recent_received_token_time
          /\ entry_config' = f.entry_config
          /\ consumed' = f.consumed
          /\ caught' = f.caught
          /\ result' = f.result
    /\ suspended' = <<>>
    /\ UNCHANGED <<shared, invocations, issued>>

ConcurrentNext ==
    \/ LlmRequest
    \/ ConcurrentLlmRequest
    \/ Resume
    \/ CallConverseStream
    \/ NextEvent
    \/ StreamEnd
    \/ StreamRaises
    \/ CallConverse
    \/ ComputeMetrics
    \/ Except
    \/ Finalize

ConcurrentSpec == Init /\ [][ConcurrentNext]_vars

----------------------------------------------------------------------------
(* Observations used by the properties *)

(* a remote call was issued in the current invocation *)
CallIssued == \E i \in DOMAIN issued : issued[i].invocation = invocations

(* the current invocation is over: it returned or it raised *)
Finished == pc \in {"returned", "raised"}

IsTextDelta(e) ==
    /\ "contentBlockDelta" \in DOMAIN e
    /\ "text" \in DOMAIN e["contentBlockDelta"]["delta"]

(* the concatenation of the texts of the ContentDelta events of a *)
(* sequence of consumed events, in order *)
RECURSIVE ConcatTexts(_)
ConcatTexts(evs) ==
    IF evs = <<>> THEN <<>>
    ELSE (IF IsTextDelta(Head(evs).event)
          THEN Head(evs).event["contentBlockDelta"]["delta"]["text"]
          ELSE <<>>) \o ConcatTexts(Tail(evs))

(* the error fields of a metrics record carry a description of a failure *)
ErrorPopulated(bm) ==
    /\ ERROR_MSG \in DOMAIN bm
    /\ bm[ERROR_MSG] # ""

(* a MessageStart followed only by text ContentDelta events *)
StartThenDeltas(evs) ==
    /\ Len(evs) >= 1
    /\ evs[1].event = EvMessageStart
    /\ \A i \in 2..Len(evs) : IsTextDelta(evs[i].event)

(* the Request Builder reached line 86 in the current invocation *)
Built == invocations >= 1 /\ "modelId" \in DOMAIN api_inputs

(* the remote calls of the current invocation *)
CallsIssued == { i \in DOMAIN issued : issued[i].invocation = invocations }

(* the stream directive of a sampling_params mapping *)
Directive(sp) == IF "stream" \in DOMAIN sp THEN sp["stream"] ELSE FALSE

(* elapsed time, since call start, at which each ContentDelta arrived *)
RECURSIVE Arrivals(_)
Arrivals(evs) ==
    IF evs = <<>> THEN <<>>
    ELSE (IF "contentBlockDelta" \in DOMAIN Head(evs).event
          THEN << Head(evs).at - start_time >>
          ELSE <<>>) \o Arrivals(Tail(evs))

(* [t1, t2 - t1, ..., tn - t(n-1)] *)
Gaps(ts) == [i \in 1..Len(ts) |-> IF i = 1 THEN ts[1] ELSE ts[i] - ts[i - 1]]


----------------------------------------------------------------------------
(* Properties *)

(* C1: an invocation that issued its remote call never raises to the    *)
(* caller, whatever the remote call did: it ends by returning the triple *)
(* (metrics record, generated text, request description).                *)
C1_NeverRaises ==
    (CallIssued /\ Finished) => (pc = "returned" /\ Len(result) = 3)

(* C2: a stream that delivered a MessageStart and then only ContentDelta *)
(* events before it ended (no Metadata, no MessageStop) makes llm_request *)
(* return, not raise, a record with populated error fields together with *)
(* exactly the concatenation of the delta texts received.                *)
C2_InterruptedStreamReturns ==
    (stream_model /\ Finished /\ StartThenDeltas(consumed))
        => /\ pc = "returned"
           /\ ErrorPopulated(result[1])
           /\ result[2] = ConcatTexts(consumed)

(* C3: after the call arguments are built the caller's sampling_params   *)
(* has the keys and values it had before the invocation, and the request *)
(* description returned as third element has unchanged contents.         *)
C3_SamplingParamsUnchanged ==
    /\ request_config.sampling_params = entry_config.sampling_params
    /\ pc = "returned" => result[3] = entry_config

(* C4: two invocations in succession on the same RequestDescription     *)
(* build the same CallArguments and choose the same call path: any two  *)
(* remote calls issued for it have the same operation and arguments.    *)
C4_IdempotentBuilder ==
    \A i, j \in DOMAIN issued :
        /\ issued[i].op = issued[j].op
        /\ issued[i].args = issued[j].args

(* C5: when the sampling parameters given to the invocation contain     *)
(* max_tokens = n, the inferenceConfig of the call arguments has        *)
(* maxTokens = n and neither a max_tokens nor a stream key; the call    *)
(* issued is converse_stream when the stream directive is true and      *)
(* converse when it is false or absent, with those arguments.           *)
C5_InferenceConfig ==
    LET sp == entry_config.sampling_params
        op == IF Directive(sp) THEN "converse_stream" ELSE "converse"
    IN  (Built /\ "max_tokens" \in DOMAIN sp) =>
            /\ "inferenceConfig" \in DOMAIN api_inputs
            /\ "maxTokens" \in DOMAIN api_inputs["inferenceConfig"]
            /\ api_inputs["inferenceConfig"]["maxTokens"] = sp["max_tokens"]
            /\ "max_tokens" \notin DOMAIN api_inputs["inferenceConfig"]
            /\ "stream" \notin DOMAIN api_inputs["inferenceConfig"]
            /\ stream_model = Directive(sp)
            /\ \A i \in CallsIssued :
                  issued[i].op = op /\ issued[i].args = api_inputs
            /\ pc \in {"streaming", "post", "except", "finalize", "returned"}
                  => CallsIssued # {}

C5_Witness ==
    /\ pc = "streaming"
    /\ entry_config.sampling_params = [max_tokens |-> 100, stream |-> TRUE]
    /\ api_inputs["inferenceConfig"] = [maxTokens |-> 100]
    /\ issued[Len(issued)].op = "converse_stream"

(* C6: with the configuration present, building the call arguments      *)
(* completes normally, and each of system, additionalModelRequestFields, *)
(* additionalModelResponseFieldPaths and toolConfig is a key of the call *)
(* arguments exactly when the field is present and non-empty in         *)
(* additional_request_body (system wrapped as a one-element list, the   *)
(* others copied as given).                                             *)
C6_OptionalFields ==
    LET body == request_config.additional_request_body
        given(f) == body # None /\ f \in DOMAIN body /\ body[f] # EmptyValue(f)
    IN  (invocations >= 1 /\ ~MissingEnv) =>
            /\ ~(pc = "raised" /\ exc = "NameError")
            /\ \A f \in OptionalFields :
                  /\ (f \in DOMAIN api_inputs) <=> given(f)
                  /\ (f \in DOMAIN api_inputs) =>
                        api_inputs[f] = IF f = "system"
                                        THEN << [text |-> body[f]] >>
                                        ELSE body[f]

(* C7: on the streaming path the recorded gaps are exactly              *)
(* [t1, t2 - t1, ..., tn - t(n-1)] for the elapsed arrival times        *)
(* t1 .. tn of the ContentDelta events, and the reported inter-token    *)
(* latency is their sum, tn.                                            *)
C7_InterArrivalGaps ==
    LET ts == Arrivals(consumed)
    IN  stream_model =>
            /\ time_to_next_token = Gaps(ts)
            /\ (INTER_TOKEN_LAT \in DOMAIN benchmark_metrics /\ Len(ts) >= 1)
                  => benchmark_metrics[INTER_TOKEN_LAT] = ts[Len(ts)]
            /\ (pc = "returned" /\ Len(ts) >= 1)
                  => result[1][INTER_TOKEN_LAT] = ts[Len(ts)]

C7_Witness ==
    /\ pc = "returned"
    /\ stream_model
    /\ Arrivals(consumed) = <<1, 3>>
    /\ time_to_next_token = <<1, 2>>
    /\ result[1][INTER_TOKEN_LAT] = 3

(* C8: on the streaming path the generated text is the concatenation,   *)
(* in arrival order, of the texts of the ContentDelta events consumed   *)
(* and of nothing else, whatever other events are interleaved.          *)
C8_GeneratedText ==
    stream_model =>
        /\ generated_text = ConcatTexts(consumed)
        /\ pc = "returned" => result[2] = ConcatTexts(consumed)

C8_Witness ==
    /\ pc = "returned"
    /\ stream_model
    /\ Len(consumed) = 3
    /\ consumed[1].event = EvDelta(<<"b">>)
    /\ consumed[2].event = EvMetadataFull
    /\ consumed[3].event = EvDelta(<<"a">>)
    /\ result[2] = <<"b", "a">>

(* C9: a successful non-streaming invocation whose response reports     *)
(* outputTokens = k after a non-zero elapsed time t returns a record    *)
(* with throughput k / t, end-to-end latency t, time-to-first-token 0,  *)
(* inter-token latency 0 with no gaps, and the three token counts of    *)
(* the usage the provider reported.                                     *)
C9_BlockingMetrics ==
    (pc = "returned" /\ ~stream_model /\ caught = NoExc) =>
        LET bm == result[1]
            t == clock - start_time
            reported == response["usage"]
        IN  /\ t # 0
            /\ bm[REQ_OUTPUT_THROUGHPUT] = Ratio(reported["outputTokens"], t)
            /\ bm[E2E_LAT] = t
            /\ bm[TTFT] = 0
            /\ bm[INTER_TOKEN_LAT] = 0
            /\ time_to_next_token = <<>>
            /\ bm[NUM_TOTAL_TOKENS] = reported["totalTokens"]
            /\ bm[NUM_OUTPUT_TOKENS] = reported["outputTokens"]
            /\ bm[NUM_INPUT_TOKENS] = reported["inputTokens"]

C9_Witness ==
    /\ pc = "returned"
    /\ ~stream_model
    /\ caught = NoExc
    /\ response = Response(TextContent, UsageFull)
    /\ result[1][REQ_OUTPUT_THROUGHPUT] = Ratio(3, 2)
    /\ result[1][E2E_LAT] = 2

(* C10: once the handler has caught a failure, the error fields of the  *)
(* metrics record describe it: the error message is not left empty and  *)
(* the error code is not left None.                                     *)
C10_ErrorFieldsPopulated ==
    (caught # NoExc) =>
        /\ ErrorPopulated(benchmark_metrics)
        /\ benchmark_metrics[ERROR_CODE] # "None"

(* the value of a field of a metrics record is absent or zero *)
AbsentOrZero(bm, k) == k \in DOMAIN bm => bm[k] = 0

(* C11: in every record returned by a failed invocation the throughput  *)
(* and the three token counts are each absent or zero; token counts     *)
(* captured before the failure are not reported.                        *)
C11_FailedRecordZeroed ==
    (pc = "returned" /\ caught # NoExc) =>
        /\ REQ_OUTPUT_THROUGHPUT \in DOMAIN result[1]
              => result[1][REQ_OUTPUT_THROUGHPUT][1] = 0
        /\ AbsentOrZero(result[1], NUM_TOTAL_TOKENS)
        /\ AbsentOrZero(result[1], NUM_OUTPUT_TOKENS)
        /\ AbsentOrZero(result[1], NUM_INPUT_TOKENS)

(* a required ambient setting is missing *)
SettingMissing ==
    \E v \in {"AWS_ACCESS_KEY_ID", "AWS_SECRET_ACCESS_KEY", "AWS_REGION_NAME"} :
        v \notin environ

(* C12: when a required ambient setting is missing, an invocation fails *)
(* with the configuration error, no converse or converse_stream call is *)
(* ever issued, and the sampling parameters stay as they were.          *)
C12_FailFast ==
    (SettingMissing /\ invocations >= 1) =>
        /\ pc = "raised"
        /\ exc = "ValueError"
        /\ issued = <<>>
        /\ request_config = entry_config

C12_Witness ==
    /\ pc = "raised"
    /\ exc = "ValueError"
    /\ environ = {"AWS_ACCESS_KEY_ID", "AWS_SECRET_ACCESS_KEY"}
    /\ request_config.sampling_params = [max_tokens |-> 100, stream |-> TRUE]
    /\ issued = <<>>

(* C13: an invocation that passes the configuration check issues        *)
(* exactly one remote call: never more than one, and exactly one by the *)
(* time it is over.                                                     *)
C13_ExactlyOneCall ==
    (~SettingMissing /\ invocations >= 1) =>
        /\ Cardinality(CallsIssued) <= 1
        /\ Finished => Cardinality(CallsIssued) = 1

(* C14: on the streaming path time-to-first-token is zero until the     *)
(* first ContentDelta is consumed and from then on is the elapsed time  *)
(* at which that first delta arrived, so that the first gap, when there *)
(* is one, equals the time-to-first-token.                              *)
C14_TtftFrozen ==
    LET ts == Arrivals(consumed)
    IN  stream_model =>
            /\ ts = <<>> => ttft = 0
            /\ ts # <<>> => ttft = ts[1]
            /\ time_to_next_token # <<>> => time_to_next_token[1] = ttft

(* the usage (metrics) of the last Metadata event that carried one *)
RECURSIVE LastField(_, _, _)
LastField(evs, k, default) ==
    IF evs = <<>> THEN default
    ELSE LET e == evs[Len(evs)].event
         IN  IF "metadata" \in DOMAIN e /\ k \in DOMAIN e["metadata"]
             THEN e["metadata"][k]
             ELSE LastField(SubSeq(evs, 1, Len(evs) - 1), k, default)

(* C15: the captured usage is that of the last Metadata event that      *)
(* carried a usage sub-field, and the empty mapping when there was      *)
(* none: an event without usage leaves it as it was.  The same holds    *)
(* for the provider metrics.                                            *)
C15_UsageCaptured ==
    stream_model =>
        /\ usage = LastField(consumed, "usage", EmptyDict)
        /\ metrics = LastField(consumed, "metrics", EmptyDict)

C15_Witness ==
    /\ stream_model
    /\ pc = "post"
    /\ Len(consumed) = 3
    /\ consumed[1].event = EvMetadataFull
    /\ consumed[2].event = EvMetadataMetrics
    /\ consumed[3].event = EvMetadataUsage
    /\ usage = UsageNoTotal
    /\ metrics = Metrics2

(* C18: on a successful streaming invocation the reported inter-token   *)
(* latency equals the reported end-to-end latency.                      *)
C18_InterTokenEqualsE2E ==
    (pc = "returned" /\ stream_model /\ caught = NoExc) =>
        result[1][INTER_TOKEN_LAT] = result[1][E2E_LAT]

(* C19: a record returned after the handler caught a failure reports    *)
(* end-to-end latency 0 and throughput 0, whatever time elapsed; what   *)
(* it carries from before the failure is the time-to-first-token, the   *)
(* gaps, the generated text and the captured usage.                     *)
C19_FailedRecord ==
    (pc = "returned" /\ caught # NoExc) =>
        /\ result[1][E2E_LAT] = 0
        /\ result[1][REQ_OUTPUT_THROUGHPUT] = Zero
        /\ result[1][TTFT] = ttft
        /\ result[1][INTER_TOKEN_LAT] = Sum(time_to_next_token)
        /\ result[2] = generated_text
        /\ result[1][NUM_TOTAL_TOKENS] = usage["totalTokens"]
        /\ result[1][NUM_OUTPUT_TOKENS] = usage["outputTokens"]
        /\ result[1][NUM_INPUT_TOKENS] = usage["inputTokens"]

C19_Witness ==
    /\ pc = "returned"
    /\ caught = "EventStreamError"
    /\ clock - start_time = 3
    /\ time_to_next_token = <<1>>
    /\ usage = UsageFull
    /\ result[1][E2E_LAT] = 0
    /\ result[1][INTER_TOKEN_LAT] = 1

(* C16: an invocation that has reached its remote call, streaming or    *)
(* not, eventually ends: the loop consumes the events the stream        *)
(* delivers and is left when the stream is exhausted, whether or not a  *)
(* MessageStop or Metadata event was among them.                        *)
C16_Terminates == (pc \in {"try", "streaming"}) ~> Finished

C16_Witness ==
    /\ Finished
    /\ stream_model
    /\ caught = "KeyError"
    /\ Len(consumed) = MaxEvents
    /\ StartThenDeltas(consumed)

(* C17: overlapping invocations do not interfere.  While an invocation  *)
(* waits on its stream and a second one, given the same                 *)
(* RequestDescription, runs, every remote call of the second has the    *)
(* operation and the arguments of the call the waiting one issued.      *)
C17_NoInterference ==
    suspended # <<>> =>
        \A i, j \in DOMAIN issued :
            (issued[i].invocation = suspended[1].id
                /\ issued[j].invocation = invocations)
            => /\ issued[j].op = issued[i].op
               /\ issued[j].args = issued[i].args
====
